---- MODULE Spec2Model ----
(***************************************************************************)
(* Model of backend/foodgram/api/serializers.py: the recipe serializer's   *)
(* validation, its create and update write paths over the recipe table,    *)
(* the IngredientInRecipe table and the two many-to-many relations, the    *)
(* base64 image field, and the is_favorited / is_in_shopping_cart fields.  *)
(***************************************************************************)
EXTENDS Integers, Sequences, FiniteSets, TLC

VARIABLES
    recipes,             \* Recipe rows: records [id, name, author]
    iir,                 \* IngredientInRecipe rows: [ingredient, amount, pk]
    recipe_ingredients,  \* Recipe.ingredients through rows: <<recipe id, row>>
    recipe_tags,         \* Recipe.tags through rows: <<recipe id, tag>>
    reqs,                \* the requests being served, one per worker slot
    nreq,                \* requests received so far
    favorite,            \* Favorite rows: <<user id, recipe id>>
    shopping_cart,       \* ShoppingCart rows: <<user id, recipe id>>
    files,               \* the files to_internal_value has produced, in order
    last_call,           \* the last to_internal_value call: its input and output
    validate_in,         \* the data validate() is called with
    validate_out         \* what that call raised or returned

vars == <<recipes, iir, recipe_ingredients, recipe_tags, reqs, nreq,
          favorite, shopping_cart, files, last_call, validate_in, validate_out>>
db == <<recipes, iir, recipe_ingredients, recipe_tags>>
write_vars == <<recipes, iir, recipe_ingredients, recipe_tags, reqs, nreq>>
fav_vars == <<favorite, shopping_cart>>
image_vars == <<files, last_call>>
validate_vars == <<validate_in, validate_out>>
other_vars == <<favorite, shopping_cart, files, last_call,
                validate_in, validate_out>>

----------------------------------------------------------------------------
(* Bounds of the model. *)

\* requests received in one run of the write path, served one at a time
MaxReq == 2
\* longest ingredients list and longest tags list of a request
MaxLen == 2
\* requests received in one run of the longer write path, one at a time
MaxReqLong == 3
\* longest ingredients list and tags list of a request there
MaxLenLong == 1
\* longest ingredients list and tags list validate() is called with
MaxLenValidate == 2
\* worker slots (requests in flight at once) of the overlapping write path
MaxInFlight == 2
\* requests received in one run of the overlapping write path
MaxReqConc == 2
\* longest ingredients list and tags list of a request there
MaxLenConc == 1

Ingredients == {"flour", "salt"}
Amounts == {1, 2}
Tags == {"breakfast", "dinner"}
Names == {"soup", "cake"}
Users == {"u1", "u2"}

Slots == 1..MaxInFlight

----------------------------------------------------------------------------
(* Helpers. *)

Range(s) == {s[i] : i \in DOMAIN s}

SeqsUpTo(S, n) == UNION {[1..k -> S] : k \in 0..n}

\* an item of the request's "ingredients" list after field validation:
\* {'ingredient': <Ingredient>, 'amount': <n>}
IngredientItems == [ingredient : Ingredients, amount : Amounts]

\* the attributes of a request the serializer reads
Payloads(users, n) ==
    [name : Names, author : users,
     ingredients : SeqsUpTo(IngredientItems, n), tags : SeqsUpTo(Tags, n)]

None == "None"
NoError == "ok"
\* 'Вы уже создавали такой рецепт.'
UniqueError == "Vy uzhe sozdavali takoy retsept."
\* 'Ингредиенты дублируются'
IngredientsError == "Ingredienty dubliruyutsya"
\* 'Тэги дублируются'
TagsError == "Tegi dubliruyutsya"

Idle == [pc |-> "idle"]

----------------------------------------------------------------------------
(* Validation. *)

\* UniqueTogetherValidator(queryset=Recipe.objects.all(),
\* fields=('name', 'author')): TRUE when it raises.  On update the instance
\* being updated is excluded from the queryset; on create instance is 0.
UniqueTogetherValidator(rs, data, instance) ==
    \E r \in rs : /\ r.name = data.name
                  /\ r.author = data.author
                  /\ r.id # instance

\* utils.check_for_dublicates(items_list, error_message): TRUE when it raises
\* ValidationError(error_message)
check_for_dublicates(items_list) ==
    Len(items_list) # Cardinality(Range(items_list))

\* validate() checking whole (ingredient, amount) items instead of ids
validate_items(data) ==
    IF check_for_dublicates(data.ingredients)
    THEN [error |-> IngredientsError, data |-> None]
    ELSE IF check_for_dublicates(data.tags)
         THEN [error |-> TagsError, data |-> None]
         ELSE [error |-> NoError, data |-> data]

\* RecipeSerializer.validate: the error it raises, or the data it returns
validate(data) ==
    LET ingredients == [i \in DOMAIN data.ingredients |->
                            data.ingredients[i].ingredient]
        tags == data.tags
    IN  IF check_for_dublicates(ingredients)
        THEN [error |-> IngredientsError, data |-> None]
        ELSE IF check_for_dublicates(tags)
             THEN [error |-> TagsError, data |-> None]
             ELSE [error |-> NoError, data |-> data]

\* the serializer's run_validation: Meta.validators run first, then validate()
run_validation(rs, data, instance) ==
    IF UniqueTogetherValidator(rs, data, instance)
    THEN [error |-> UniqueError, data |-> None]
    ELSE validate(data)

----------------------------------------------------------------------------
(* ORM operations on the tables. *)

SamePair(row, item) ==
    row.ingredient = item.ingredient /\ row.amount = item.amount

\* the row an INSERT of item adds to tbl: its pk tells it from the rows
\* already carrying the same (ingredient, amount)
NewRow(tbl, item) ==
    [ingredient |-> item.ingredient, amount |-> item.amount,
     pk |-> Cardinality({row \in tbl : SamePair(row, item)}) + 1]

\* the uniqueness constraint of IngredientInRecipe on (ingredient, amount)
\* that ignore_conflicts and get_or_create rely on
UniqueConflict(tbl, item) == \E row \in tbl : SamePair(row, item)

\* IngredientInRecipe.objects.bulk_create(objs, ignore_conflicts=True):
\* the objects are inserted in order, a conflicting one is skipped
RECURSIVE bulk_create(_, _)
bulk_create(tbl, objs) ==
    IF objs = <<>> THEN tbl
    ELSE bulk_create(
             IF UniqueConflict(tbl, Head(objs)) THEN tbl
             ELSE tbl \cup {NewRow(tbl, Head(objs))},
             Tail(objs))

\* IngredientInRecipe.objects.filter(ingredient__in=..., amount__in=...)
filter_in(tbl, ingredient__in, amount__in) ==
    {row \in tbl : row.ingredient \in ingredient__in /\ row.amount \in amount__in}

\* get_or_create() that always creates
get_or_create_always(tbl, item) ==
    LET row == NewRow(tbl, item)
    IN  [tbl |-> tbl \cup {row}, obj |-> row, created |-> TRUE]

\* IngredientInRecipe.objects.get_or_create(**ingredient): the table
\* afterwards, the row returned and whether it was created
get_or_create(tbl, item) ==
    IF \E row \in tbl : SamePair(row, item)
    THEN [tbl |-> tbl, obj |-> CHOOSE row \in tbl : SamePair(row, item),
          created |-> FALSE]
    ELSE LET row == NewRow(tbl, item)
         IN  [tbl |-> tbl \cup {row}, obj |-> row, created |-> TRUE]

\* the related objects of recipe r in a many-to-many relation
Related(rel, r) == {x[2] : x \in {y \in rel : y[1] = r}}

\* clear() that removes nothing
clear_nothing(rel, r) == rel

\* clear() that empties the relation for every recipe
clear_all(rel, r) == {}

\* instance.<relation>.clear()
clear(rel, r) == {x \in rel : x[1] # r}

\* instance.<relation>.add(obj)
add(rel, r, obj) == rel \cup {<<r, obj>>}

\* instance.<relation>.set(objs)
set(rel, r, objs) == {x \in rel : x[1] # r} \cup {<<r, obj>> : obj \in objs}

\* utils.add_tags_to_instance(instance, tags): associates each supplied tag
add_tags_to_instance(rel, r, tags) == rel \cup {<<r, t>> : t \in Range(tags)}

----------------------------------------------------------------------------
(* The write path: a request is validated on arrival (is_valid), and a     *)
(* valid one is saved by create or update, one ORM call per step.          *)

\* is_valid() not stopping the save of an invalid request
Receive_save_anyway(s, kind, instance, data, limit) ==
    /\ reqs[s].pc = "idle"
    /\ nreq < limit
    /\ LET v == run_validation(recipes, data, instance)
       IN  reqs' = [reqs EXCEPT ![s] =
                [pc |-> "validated",
                 kind |-> kind, instance |-> instance, data |-> data,
                 validated_data |-> data, error |-> v.error, i |-> 1, create |-> FALSE]]
    /\ nreq' = nreq + 1
    /\ UNCHANGED <<db, other_vars>>

\* a request arrives at slot s and is_valid() runs: kind is "create"
\* (instance 0) or "update" of recipe instance; i is the position of the
\* update loop in the ingredients, create the loop's variable of that name
Receive(s, kind, instance, data, limit) ==
    /\ reqs[s].pc = "idle"
    /\ nreq < limit
    /\ LET v == run_validation(recipes, data, instance)
       IN  reqs' = [reqs EXCEPT ![s] =
                [pc |-> IF v.error = NoError THEN "validated" ELSE "rejected",
                 kind |-> kind, instance |-> instance, data |-> data,
                 validated_data |-> v.data, error |-> v.error, i |-> 1, create |-> FALSE]]
    /\ nreq' = nreq + 1
    /\ UNCHANGED <<db, other_vars>>

At(s, kind, pc) == reqs[s].pc = pc /\ reqs[s].kind = kind

Goto(s, pc) == reqs' = [reqs EXCEPT ![s].pc = pc]

\* create() with add_tags_to_instance called right after the recipe is made
CreateRecipeRow_tags_first(s) ==
    /\ At(s, "create", "validated")
    /\ LET id == Cardinality(recipes) + 1
           d == reqs[s].validated_data
       IN  /\ recipes' = recipes \cup
                  {[id |-> id, name |-> d.name, author |-> d.author]}
           /\ recipe_tags' = add_tags_to_instance(recipe_tags, id, d.tags)
           /\ reqs' = [reqs EXCEPT ![s].pc = "bulk_create", ![s].instance = id]
    /\ UNCHANGED <<iir, recipe_ingredients, nreq, other_vars>>

\* create: new_recipe = Recipe.objects.create(**validated_data)
CreateRecipeRow(s) ==
    /\ At(s, "create", "validated")
    /\ LET id == Cardinality(recipes) + 1
           d == reqs[s].validated_data
       IN  /\ recipes' = recipes \cup
                  {[id |-> id, name |-> d.name, author |-> d.author]}
           /\ reqs' = [reqs EXCEPT ![s].pc = "bulk_create", ![s].instance = id]
    /\ UNCHANGED <<iir, recipe_ingredients, recipe_tags, nreq, other_vars>>

\* create: IngredientInRecipe.objects.bulk_create(ingredients_objects_list,
\* ignore_conflicts=True)
CreateBulkCreate(s) ==
    /\ At(s, "create", "bulk_create")
    /\ iir' = bulk_create(iir, reqs[s].validated_data.ingredients)
    /\ Goto(s, "set")
    /\ UNCHANGED <<recipes, recipe_ingredients, recipe_tags, nreq, other_vars>>

\* create: new_recipe.ingredients.set(ingredients_queryset)
CreateSetIngredients(s) ==
    /\ At(s, "create", "set")
    /\ LET ingredients_objects_list == reqs[s].validated_data.ingredients
           ingredients_queryset ==
               filter_in(iir,
                   {item.ingredient : item \in Range(ingredients_objects_list)},
                   {item.amount : item \in Range(ingredients_objects_list)})
       IN  recipe_ingredients' =
               set(recipe_ingredients, reqs[s].instance, ingredients_queryset)
    /\ Goto(s, "add_tags")
    /\ UNCHANGED <<recipes, iir, recipe_tags, nreq, other_vars>>

\* create: add_tags_to_instance(new_recipe, tags); return new_recipe
CreateAddTags(s) ==
    /\ At(s, "create", "add_tags")
    /\ recipe_tags' = add_tags_to_instance(recipe_tags, reqs[s].instance,
                                           reqs[s].validated_data.tags)
    /\ Goto(s, "done")
    /\ UNCHANGED <<recipes, iir, recipe_ingredients, nreq, other_vars>>

\* update: instance.tags.clear()
UpdateClearTags(s) ==
    /\ At(s, "update", "validated")
    /\ recipe_tags' = clear(recipe_tags, reqs[s].instance)
    /\ Goto(s, "add_tags")
    /\ UNCHANGED <<recipes, iir, recipe_ingredients, nreq, other_vars>>

\* update: add_tags_to_instance(instance, tags)
UpdateAddTags(s) ==
    /\ At(s, "update", "add_tags")
    /\ recipe_tags' = add_tags_to_instance(recipe_tags, reqs[s].instance,
                                           reqs[s].validated_data.tags)
    /\ Goto(s, "clear_ingredients")
    /\ UNCHANGED <<recipes, iir, recipe_ingredients, nreq, other_vars>>

\* update: instance.ingredients.clear()
UpdateClearIngredients(s) ==
    /\ At(s, "update", "clear_ingredients")
    /\ recipe_ingredients' = clear(recipe_ingredients, reqs[s].instance)
    /\ Goto(s, "loop")
    /\ UNCHANGED <<recipes, iir, recipe_tags, nreq, other_vars>>

\* update: one turn of the loop over ingredients:
\* ingredient_in_recipe, create = get_or_create(**ingredient), then add
UpdateGetOrCreate(s) ==
    /\ At(s, "update", "loop")
    /\ reqs[s].i <= Len(reqs[s].validated_data.ingredients)
    /\ LET got == get_or_create(iir, reqs[s].validated_data.ingredients[reqs[s].i])
       IN  /\ iir' = got.tbl
           /\ recipe_ingredients' =
                  add(recipe_ingredients, reqs[s].instance, got.obj)
           /\ reqs' = [reqs EXCEPT ![s].i = @ + 1, ![s].create = got.created]
    /\ UNCHANGED <<recipes, recipe_tags, nreq, other_vars>>

\* update: return super().update(instance, validated_data): the remaining
\* attributes are set on the instance and it is saved
UpdateSuper(s) ==
    /\ At(s, "update", "loop")
    /\ reqs[s].i > Len(reqs[s].validated_data.ingredients)
    /\ LET d == reqs[s].validated_data
       IN  recipes' = {r \in recipes : r.id # reqs[s].instance} \cup
               {[id |-> reqs[s].instance, name |-> d.name, author |-> d.author]}
    /\ Goto(s, "done")
    /\ UNCHANGED <<iir, recipe_ingredients, recipe_tags, nreq, other_vars>>

\* the response is sent and the slot is free again
Respond(s) ==
    /\ reqs[s].pc \in {"done", "rejected"}
    /\ reqs' = [reqs EXCEPT ![s] = Idle]
    /\ UNCHANGED <<db, nreq, other_vars>>

----------------------------------------------------------------------------
(* Requests served one at a time. *)

WriteInit ==
    /\ recipes = {}
    /\ iir = {}
    /\ recipe_ingredients = {}
    /\ recipe_tags = {}
    /\ reqs = [s \in Slots |-> Idle]
    /\ nreq = 0

FavIdle == favorite = {} /\ shopping_cart = {}

\* no to_internal_value call yet
NoCall == [kind |-> "none"]

ImageIdle == files = <<>> /\ last_call = NoCall

\* validate() has not been called
NotCalled == [error |-> "not called"]

ValidateIdle == validate_in = <<>> /\ validate_out = NotCalled

Init == WriteInit /\ FavIdle /\ ImageIdle /\ ValidateIdle

AllIdle == \A s \in Slots : reqs[s].pc = "idle"

\* the one user whose requests the one-at-a-time runs serve
OneUser == {"u1"}

ReceiveCreate ==
    /\ AllIdle
    /\ \E data \in Payloads(OneUser, MaxLen) :
           Receive(1, "create", 0, data, MaxReq)

ReceiveUpdate ==
    /\ AllIdle
    /\ \E r \in recipes : \E data \in Payloads(OneUser, MaxLen) :
           Receive(1, "update", r.id, data, MaxReq)

Next ==
    \/ ReceiveCreate
    \/ ReceiveUpdate
    \/ CreateRecipeRow(1)
    \/ CreateBulkCreate(1)
    \/ CreateSetIngredients(1)
    \/ CreateAddTags(1)
    \/ UpdateClearTags(1)
    \/ UpdateAddTags(1)
    \/ UpdateClearIngredients(1)
    \/ UpdateGetOrCreate(1)
    \/ UpdateSuper(1)
    \/ Respond(1)

Spec == Init /\ [][Next]_vars

----------------------------------------------------------------------------
(* validate() on its own: called once with any data. *)

ValidateInit ==
    /\ WriteInit /\ FavIdle /\ ImageIdle
    /\ validate_in \in Payloads(Users, MaxLenValidate)
    /\ validate_out = NotCalled

CallValidate ==
    /\ validate_out = NotCalled
    /\ validate_out' = validate(validate_in)
    /\ UNCHANGED <<validate_in, write_vars, fav_vars, image_vars>>

ValidateNext == CallValidate

SpecValidate == ValidateInit /\ [][ValidateNext]_vars

----------------------------------------------------------------------------
(* Longer runs of requests served one at a time, with shorter lists. *)

LongReceiveCreate ==
    /\ AllIdle
    /\ \E data \in Payloads(OneUser, MaxLenLong) :
           Receive(1, "create", 0, data, MaxReqLong)

LongReceiveUpdate ==
    /\ AllIdle
    /\ \E r \in recipes : \E data \in Payloads(OneUser, MaxLenLong) :
           Receive(1, "update", r.id, data, MaxReqLong)

LongNext ==
    \/ LongReceiveCreate
    \/ LongReceiveUpdate
    \/ CreateRecipeRow(1)
    \/ CreateBulkCreate(1)
    \/ CreateSetIngredients(1)
    \/ CreateAddTags(1)
    \/ UpdateClearTags(1)
    \/ UpdateAddTags(1)
    \/ UpdateClearIngredients(1)
    \/ UpdateGetOrCreate(1)
    \/ UpdateSuper(1)
    \/ Respond(1)

SpecLong == Init /\ [][LongNext]_vars

----------------------------------------------------------------------------
(* Requests whose validation and writes overlap: each worker slot serves   *)
(* a request of its own, and the ORM calls of the slots interleave.        *)

ConcReceiveCreate ==
    \E s \in Slots : \E data \in Payloads(OneUser, MaxLenConc) :
        Receive(s, "create", 0, data, MaxReqConc)

ConcReceiveUpdate ==
    \E s \in Slots : \E r \in recipes : \E data \in Payloads(OneUser, MaxLenConc) :
        Receive(s, "update", r.id, data, MaxReqConc)

ConcNext ==
    \/ ConcReceiveCreate
    \/ ConcReceiveUpdate
    \/ \E s \in Slots : CreateRecipeRow(s)
    \/ \E s \in Slots : CreateBulkCreate(s)
    \/ \E s \in Slots : CreateSetIngredients(s)
    \/ \E s \in Slots : CreateAddTags(s)
    \/ \E s \in Slots : UpdateClearTags(s)
    \/ \E s \in Slots : UpdateAddTags(s)
    \/ \E s \in Slots : UpdateClearIngredients(s)
    \/ \E s \in Slots : UpdateGetOrCreate(s)
    \/ \E s \in Slots : UpdateSuper(s)
    \/ \E s \in Slots : Respond(s)

SpecConc == Init /\ [][ConcNext]_vars

----------------------------------------------------------------------------
(* is_favorited and is_in_shopping_cart.  Favorite and ShoppingCart rows    *)
(* are added and removed by the views; the serializer only reads them.      *)

FavRecipes == {1, 2}

\* request.user.id of an anonymous requester
AnonymousId == None

Requesters == Users \cup {AnonymousId}

\* get_is_in_shopping_cart() reading the Favorite table
get_is_in_shopping_cart_favorite(user_id, obj_id) ==
    \E row \in favorite : row[1] = user_id /\ row[2] = obj_id

\* RecipeSerializer.get_is_favorited:
\* Favorite.objects.filter(user=request.user.id, recipe=obj.id).exists()
get_is_favorited(user_id, obj_id) ==
    \E row \in favorite : row[1] = user_id /\ row[2] = obj_id

\* RecipeSerializer.get_is_in_shopping_cart:
\* ShoppingCart.objects.filter(user=request.user.id, recipe=obj.id).exists()
get_is_in_shopping_cart(user_id, obj_id) ==
    \E row \in shopping_cart : row[1] = user_id /\ row[2] = obj_id

AddFavorite ==
    /\ \E u \in Users : \E r \in FavRecipes :
           /\ <<u, r>> \notin favorite
           /\ favorite' = favorite \cup {<<u, r>>}
    /\ UNCHANGED <<shopping_cart, write_vars, image_vars, validate_vars>>

RemoveFavorite ==
    /\ \E row \in favorite : favorite' = favorite \ {row}
    /\ UNCHANGED <<shopping_cart, write_vars, image_vars, validate_vars>>

AddShoppingCart ==
    /\ \E u \in Users : \E r \in FavRecipes :
           /\ <<u, r>> \notin shopping_cart
           /\ shopping_cart' = shopping_cart \cup {<<u, r>>}
    /\ UNCHANGED <<favorite, write_vars, image_vars, validate_vars>>

RemoveShoppingCart ==
    /\ \E row \in shopping_cart : shopping_cart' = shopping_cart \ {row}
    /\ UNCHANGED <<favorite, write_vars, image_vars, validate_vars>>

FavNext ==
    \/ AddFavorite
    \/ RemoveFavorite
    \/ AddShoppingCart
    \/ RemoveShoppingCart

SpecFav == Init /\ [][FavNext]_vars

----------------------------------------------------------------------------
(* The image field.  A string is a sequence of characters, a file's         *)
(* content a sequence of bytes.                                             *)

\* to_internal_value calls in one run
MaxCalls == 2
\* longest image content, in bytes
MaxBytes == 3

B64Alphabet ==
    <<"A", "B", "C", "D", "E", "F", "G", "H", "I", "J", "K", "L", "M",
      "N", "O", "P", "Q", "R", "S", "T", "U", "V", "W", "X", "Y", "Z",
      "a", "b", "c", "d", "e", "f", "g", "h", "i", "j", "k", "l", "m",
      "n", "o", "p", "q", "r", "s", "t", "u", "v", "w", "x", "y", "z",
      "0", "1", "2", "3", "4", "5", "6", "7", "8", "9", "+", "/">>

B64Index(c) == CHOOSE n \in 0..63 : B64Alphabet[n + 1] = c

B64Chars == Range(B64Alphabet)

IsB64Char(c) == c = "=" \/ c \in B64Chars

\* the bytes of one group of four base64 characters
b64decode_group(g) ==
    LET a == B64Index(g[1])
        b == B64Index(g[2])
    IN  IF g[3] = "="
        THEN <<a * 4 + b \div 16>>
        ELSE IF g[4] = "="
             THEN <<a * 4 + b \div 16,
                    (b % 16) * 16 + B64Index(g[3]) \div 4>>
             ELSE <<a * 4 + b \div 16,
                    (b % 16) * 16 + B64Index(g[3]) \div 4,
                    (B64Index(g[3]) % 4) * 64 + B64Index(g[4])>>

RECURSIVE b64decode_groups(_)
b64decode_groups(s) ==
    IF s = <<>> THEN <<>>
    ELSE b64decode_group(SubSeq(s, 1, 4)) \o
             b64decode_groups(SubSeq(s, 5, Len(s)))

\* base64.b64decode(s): characters outside the alphabet are discarded, then
\* the groups of four are decoded; a wrong length is binascii.Error
b64decode(s) ==
    LET t == SelectSeq(s, IsB64Char)
    IN  IF (Len(t) % 4) # 0 THEN "binascii.Error" ELSE b64decode_groups(t)

\* the first place at or after i where sep occurs in s, 0 if none
RECURSIVE find(_, _, _)
find(s, sep, i) ==
    IF i + Len(sep) - 1 > Len(s) THEN 0
    ELSE IF SubSeq(s, i, i + Len(sep) - 1) = sep THEN i
         ELSE find(s, sep, i + 1)

\* str.split(sep): the parts of s between the occurrences of sep
RECURSIVE split(_, _)
split(s, sep) ==
    LET i == find(s, sep, 1)
    IN  IF i = 0 THEN <<s>>
        ELSE <<SubSeq(s, 1, i - 1)>> \o
                 split(SubSeq(s, i + Len(sep), Len(s)), sep)

Base64Marker == <<";", "b", "a", "s", "e", "6", "4", ",">>

\* format.split('/')[1]
extension_second(format) == split(format, <<"/">>)[2]

\* ext = format.split('/')[-1]
extension(format) ==
    LET parts == split(format, <<"/">>) IN parts[Len(parts)]

\* ContentFile(b64decode(imgstr), name=f'{file_name}.{ext}')
ContentFile(content, file_name, ext) ==
    [content |-> content, name |-> file_name \o <<".">> \o ext]

\* RecipeSerializer.to_internal_value up to the call of super(): the data
\* handed on, file_name being str(uuid4()); unpacking a split that has not
\* two parts is ValueError
to_internal_value(data, file_name) ==
    IF "image" \in DOMAIN data
    THEN LET parts == split(data.image, Base64Marker)
         IN  IF Len(parts) # 2 THEN "ValueError"
             ELSE LET format == parts[1]
                      imgstr == parts[2]
                      ext == extension(format)
                      img_file == ContentFile(b64decode(imgstr), file_name, ext)
                  IN  [data EXCEPT !.image = img_file]
    ELSE data

\* the values str(uuid4()) can take
UUIDs == {<<"6", "f">>, <<"a", "1">>, <<"c", "9">>}

\* the prefixes, extensions and contents of the data URIs submitted
Prefixes == {<<"d", ":", "i">>, <<"d", ":", "a", "/", "x">>}
Extensions == {<<"p", "n", "g">>, <<"g", "i", "f">>}
SampleBytes == {77, 255}
Contents == SeqsUpTo(SampleBytes, MaxBytes)

\* the base64 encoding of a sequence of bytes
RECURSIVE b64encode(_)
b64encode(bytes) ==
    IF bytes = <<>> THEN <<>>
    ELSE IF Len(bytes) = 1
    THEN <<B64Alphabet[bytes[1] \div 4 + 1],
           B64Alphabet[(bytes[1] % 4) * 16 + 1], "=", "=">>
    ELSE IF Len(bytes) = 2
    THEN <<B64Alphabet[bytes[1] \div 4 + 1],
           B64Alphabet[(bytes[1] % 4) * 16 + bytes[2] \div 16 + 1],
           B64Alphabet[(bytes[2] % 16) * 4 + 1], "=">>
    ELSE <<B64Alphabet[bytes[1] \div 4 + 1],
           B64Alphabet[(bytes[1] % 4) * 16 + bytes[2] \div 16 + 1],
           B64Alphabet[(bytes[2] % 16) * 4 + bytes[3] \div 64 + 1],
           B64Alphabet[(bytes[3] % 64) + 1]>> \o
         b64encode(SubSeq(bytes, 4, Len(bytes)))

DataURI(prefix, ext, content) ==
    prefix \o <<"/">> \o ext \o Base64Marker \o b64encode(content)

\* uuid4() returns a value it has not returned before
FreshUUIDs == UUIDs \ {SubSeq(files[k], 1, 2) : k \in DOMAIN files}

\* a request whose 'image' is a data URI
CallWithDataURI ==
    /\ Len(files) < MaxCalls
    /\ \E prefix \in Prefixes : \E ext \in Extensions :
       \E content \in Contents : \E file_name \in FreshUUIDs :
           LET data == [name |-> "soup", image |-> DataURI(prefix, ext, content)]
               result == to_internal_value(data, file_name)
           IN  /\ last_call' = [kind |-> "data_uri",
                                data |-> data, prefix |-> prefix, ext |-> ext,
                                content |-> content, file_name |-> file_name,
                                result |-> result]
               /\ files' = Append(files, result.image.name)
    /\ UNCHANGED <<write_vars, fav_vars, validate_vars>>

\* a request without an 'image' key: uuid4() is not called
CallWithoutImage ==
    /\ last_call.kind # "no_image"
    /\ \E name \in Names :
           LET data == [name |-> name]
           IN  last_call' = [kind |-> "no_image", data |-> data,
                             result |-> to_internal_value(data, <<>>)]
    /\ UNCHANGED <<files, write_vars, fav_vars, validate_vars>>

ImageNext ==
    \/ CallWithDataURI
    \/ CallWithoutImage

SpecImage == Init /\ [][ImageNext]_vars

----------------------------------------------------------------------------
(* Properties of the write path. *)

HasTwice(list) == \E i, j \in DOMAIN list : i < j /\ list[i] = list[j]

IngredientIds(data) ==
    [i \in DOMAIN data.ingredients |-> data.ingredients[i].ingredient]

RecipeIds == {r.id : r \in recipes}

\* the rows associated with recipe r are exactly one row of the table per
\* item of the list
ExactlyTheItems(r, items) ==
    LET rows == Related(recipe_ingredients, r)
    IN  /\ rows \subseteq iir
        /\ \A row \in rows : \E item \in Range(items) : SamePair(row, item)
        /\ \A item \in Range(items) :
               Cardinality({row \in rows : SamePair(row, item)}) = 1

\* C1: after a successful create with ingredient items P, the join rows
\* associated with the new recipe are exactly one row per item of P and
\* nothing else, whatever the join-row table held before.
C1_CreateAssociatesPayloadOnly ==
    \A s \in Slots :
        At(s, "create", "done") =>
            ExactlyTheItems(reqs[s].instance, reqs[s].data.ingredients)

\* C2: after a successful update with ingredient items P and tags T, the
\* recipe's join rows are exactly one row per item of P and its tags are
\* exactly T, whatever it had before the update.
C2_UpdateReplaces ==
    \A s \in Slots :
        At(s, "update", "done") =>
            /\ ExactlyTheItems(reqs[s].instance, reqs[s].data.ingredients)
            /\ Related(recipe_tags, reqs[s].instance) = Range(reqs[s].data.tags)

\* an update has finished on the only recipe there is, and a join row that
\* only this recipe can have used before is no longer associated with it
C2_Witness ==
    \E s \in Slots :
        /\ At(s, "update", "done")
        /\ Cardinality(recipes) = 1
        /\ reqs[s].data.ingredients # <<>>
        /\ reqs[s].data.tags # <<>>
        /\ iir \ Related(recipe_ingredients, reqs[s].instance) # {}

\* C3: validate rejects data whose ingredient ids hold the same id twice
\* with the ingredient error, whatever the amounts; data whose tags hold the
\* same tag twice with the tag error; the ingredient error wins when both
\* lists have duplicates; data without duplicates is returned unchanged.
C3_ValidateDuplicates ==
    validate_out # NotCalled =>
        LET ids == HasTwice(IngredientIds(validate_in))
            tags == HasTwice(validate_in.tags)
        IN  /\ ids => validate_out.error = IngredientsError
            /\ (~ids /\ tags) => validate_out.error = TagsError
            /\ (~ids /\ ~tags) =>
                   /\ validate_out.error = NoError
                   /\ validate_out.data = validate_in

\* data with the same ingredient under two amounts and the same tag twice
\* has been rejected with the ingredient error
C3_Witness ==
    /\ validate_out # NotCalled
    /\ validate_out.error = IngredientsError
    /\ Len(validate_in.ingredients) = 2
    /\ validate_in.ingredients[1].ingredient =
           validate_in.ingredients[2].ingredient
    /\ validate_in.ingredients[1].amount # validate_in.ingredients[2].amount
    /\ HasTwice(validate_in.tags)

\* C4: over every sequence of creates and updates the join-row table never
\* holds two rows with the same (ingredient, amount); an existing row is
\* reused.
C4_NoDuplicateJoinRows ==
    \A a \in iir : \A b \in iir : SamePair(a, b) => a = b

\* an update has found the row of its second item in the table (its
\* get_or_create created nothing) and associated that row with the recipe
C4_Witness ==
    \E s \in Slots :
        /\ At(s, "update", "done")
        /\ Len(reqs[s].data.ingredients) = 2
        /\ ~reqs[s].create
        /\ \E row \in Related(recipe_ingredients, reqs[s].instance) :
               SamePair(row, reqs[s].data.ingredients[2])

\* C5: in create the recipe row is persisted first, then the join rows are
\* written and associated, then the tags are associated: no association
\* exists for a recipe that has no row, and the new recipe has no tag before
\* its ingredient association step has completed.
C5_CreateOrder ==
    /\ \A x \in recipe_ingredients : x[1] \in RecipeIds
    /\ \A x \in recipe_tags : x[1] \in RecipeIds
    /\ \A s \in Slots :
           /\ At(s, "create", "validated") => reqs[s].instance = 0
           /\ At(s, "create", "bulk_create") =>
                  /\ reqs[s].instance \in RecipeIds
                  /\ Related(recipe_ingredients, reqs[s].instance) = {}
                  /\ Related(recipe_tags, reqs[s].instance) = {}
           /\ At(s, "create", "set") =>
                  /\ reqs[s].instance \in RecipeIds
                  /\ reqs[s].validated_data.ingredients # <<>> =>
                         \E row \in iir : SamePair(row,
                             reqs[s].validated_data.ingredients[1])
                  /\ Related(recipe_ingredients, reqs[s].instance) = {}
                  /\ Related(recipe_tags, reqs[s].instance) = {}
           /\ At(s, "create", "add_tags") =>
                  /\ reqs[s].instance \in RecipeIds
                  /\ Related(recipe_tags, reqs[s].instance) = {}

\* a create has associated its ingredients and its tags are still to come
C5_Witness ==
    \E s \in Slots :
        /\ At(s, "create", "add_tags")
        /\ Related(recipe_ingredients, reqs[s].instance) # {}
        /\ reqs[s].validated_data.tags # <<>>

\* C7: after any sequence of create and update requests, overlapping ones
\* included, no two recipes have the same (name, author).
C7_UniqueNameAuthor ==
    \A a \in recipes : \A b \in recipes :
        (a.name = b.name /\ a.author = b.author) => a.id = b.id

\* the recipe the request being served writes to (0: none)
Acting == IF reqs[1].pc = "idle" THEN 0 ELSE reqs[1].instance

\* C8: create and update on recipe R leave the join rows and tags of every
\* other recipe as they were, and remove no join row from the table.
C8_OtherRecipesUntouched ==
    [][/\ iir \subseteq iir'
       /\ \A r \in RecipeIds :
              r # Acting' =>
                  /\ Related(recipe_ingredients', r) =
                         Related(recipe_ingredients, r)
                  /\ Related(recipe_tags', r) = Related(recipe_tags, r)]_vars

\* an update has cleared the associations of its recipe while another recipe
\* is associated with a row the updated recipe gets again
C8_Witness ==
    /\ At(1, "update", "done")
    /\ \E r \in RecipeIds \ {reqs[1].instance} :
           /\ Related(recipe_tags, r) # {}
           /\ Related(recipe_ingredients, r) \cap
                  Related(recipe_ingredients, reqs[1].instance) # {}

DuplicateErrors == {IngredientsError, TagsError}

\* C9: a request that validate rejects for duplicate ingredients or tags
\* leaves the stored state unchanged: no step taken while it is being served
\* changes a table.
C9_RejectedWritesNothing ==
    [][(reqs'[1].pc # "idle" /\ reqs'[1].error \in DuplicateErrors)
           => db' = db]_vars

\* an update of an existing recipe has been rejected for duplicate tags
C9_Witness ==
    /\ At(1, "update", "rejected")
    /\ reqs[1].error = TagsError
    /\ Related(recipe_tags, reqs[1].instance) # {}
    /\ Related(recipe_ingredients, reqs[1].instance) # {}

----------------------------------------------------------------------------
(* Properties of the image field and of the two boolean fields. *)

\* C6: for an 'image' of the form <prefix>/<ext>;base64,<data>,
\* to_internal_value puts in its place a file whose content is the decoded
\* data and whose name is <generated id>.<ext>; the names generated over a
\* run are pairwise distinct; a payload without 'image' is handed on
\* unchanged.
C6_ImageDecoded ==
    /\ last_call.kind = "data_uri" =>
                /\ "image" \in DOMAIN last_call.data
                /\ last_call.result.image.content = last_call.content
                /\ last_call.result.image.name =
                       last_call.file_name \o <<".">> \o last_call.ext
                /\ last_call.result.name = last_call.data.name
                /\ DOMAIN last_call.result = DOMAIN last_call.data
    /\ last_call.kind = "no_image" =>
                /\ "image" \notin DOMAIN last_call.data
                /\ last_call.result = last_call.data
    /\ \A i \in DOMAIN files : \A j \in DOMAIN files :
           i # j => files[i] # files[j]

\* two data URIs with the same extension have been decoded, the second one
\* with a slash in its prefix and three bytes of content
C6_Witness ==
    /\ Len(files) = 2
    /\ last_call.kind = "data_uri"
    /\ last_call.prefix = <<"d", ":", "a", "/", "x">>
    /\ Len(last_call.content) = 3
    /\ SubSeq(files[1], 3, 6) = SubSeq(files[2], 3, 6)

\* C10: for every recipe and requester, is_favorited is true exactly when a
\* Favorite row for (requester, recipe) exists and is_in_shopping_cart
\* exactly when a ShoppingCart row for it exists; both are false for an
\* anonymous requester.
C10_FlagsFollowRows ==
    \A u \in Requesters : \A r \in FavRecipes :
        /\ get_is_favorited(u, r) = (u \in Users /\ <<u, r>> \in favorite)
        /\ get_is_in_shopping_cart(u, r) =
               (u \in Users /\ <<u, r>> \in shopping_cart)

\* recipe 1 is a favorite of u1 and not in u1's cart, in u2's cart and not a
\* favorite of u2
C10_Witness ==
    /\ get_is_favorited("u1", 1) /\ ~get_is_in_shopping_cart("u1", 1)
    /\ get_is_in_shopping_cart("u2", 1) /\ ~get_is_favorited("u2", 1)
    /\ favorite = {<<"u1", 1>>}
    /\ shopping_cart = {<<"u2", 1>>}

====
